---------------------------- MODULE Spec2Model ----------------------------
(***************************************************************************)
(* State-machine model of trio/_wait_for_object.py in its default          *)
(* configuration (_pool_per_process): one process-wide WaitPool guarded by *)
(* a threading.Lock, WaitGroups serviced by one worker thread each, and    *)
(* the async front end WaitForSingleObject_pool.                           *)
(*                                                                         *)
(* Handles are integers: 1..NumHandles are the user handles the model      *)
(* signals and registers individually, NumHandles+1.. are the cancel       *)
(* events the core creates.  A group may besides hold `quiet` further user *)
(* handles: registered, never signaled and never unregistered during the   *)
(* run, so that only their number matters.                                 *)
(***************************************************************************)
EXTENDS Integers, Sequences, FiniteSets, TLC

\* ----------------------------------------------------------------- bounds
NumHandles == 2
NumCallbacks == 2
NumTasks == 2
MaxGroups == 3
GroupLimit == 2

\* ------------------------------------------------------ program constants
MAXIMUM_WAIT_OBJECTS == 64

Handles == 1..NumHandles
Callbacks == 1..NumCallbacks
Tasks == 1..NumTasks
Groups == 1..MaxGroups
CancelEvents == {NumHandles + i : i \in 1..MaxGroups}
KernelObjects == Handles \cup CancelEvents

\* The wakeup closure of task t is callback NumCallbacks + t.
wakeup_of(t) == NumCallbacks + t
Wakeups == {wakeup_of(t) : t \in Tasks}
AllCallbacks == Callbacks \cup Wakeups
task_of(cb) == cb - NumCallbacks

VARIABLES
    handle_map,       \* WaitPool._handle_map: handle -> (callbacks, wait_group)
    size_sorted,      \* WaitPool._size_sorted_wait_groups: <<[group, key]>> by key
    wait_handles,     \* WaitGroup._wait_handles of each group object (<<>>: no object)
    quiet,            \* number of quiet user handles in the group's list
    group_limit,      \* how many WaitGroup objects can exist at a time
    kernel,           \* kernel object state: "closed" | "nonsignaled" | "signaled"
    lock,             \* WaitPool.lock: 0 free, g held by the worker of group g
    pc,               \* position of each group's worker thread
    snapshot,         \* the tuple *self._wait_handles passed to WaitForMultipleObjects
    signaled_handle,  \* the local signaled_handle of drain_as_completed_sync
    pending,          \* callbacks the for-loop of remove_and_execute_callbacks still holds
    pending_handle,   \* the handle that for-loop is running for
    outcome,          \* exception the worker thread's fn ends with ("none": none)
    delivered,        \* exceptions handed to the run loop by deliver(outcome)
    job_state,        \* history: what the caller knows of each (handle, callback) job
    reported,         \* history: callbacks registered for signaled_handle when it was reported
    task_pc,          \* position of each task in WaitForSingleObject_pool
    task_obj,         \* the handle the task waits for
    reschedule_in_flight, \* the latch of each task's call
    entry_queue,      \* tasks queued by run_sync_soon(reschedule, task, idempotent=True)
    retcode,          \* the local retcode of abort
    abort_ret         \* what abort returned for the task's call

poolvars == <<handle_map, size_sorted, wait_handles, quiet, group_limit, kernel,
              pc, snapshot, signaled_handle, outcome, delivered>>
workervars == <<lock, pending, pending_handle>>
histvars == <<job_state, reported>>
taskvars == <<task_pc, task_obj, reschedule_in_flight, entry_queue, retcode, abort_ret>>
vars == <<poolvars, workervars, histvars, taskvars>>

\* ------------------------------------------------------- sequence helpers
\* list.remove(x): drop the first occurrence of x.
RECURSIVE ListRemove(_, _)
ListRemove(s, x) ==
    IF s = <<>> THEN <<>>
    ELSE IF Head(s) = x THEN Tail(s)
    ELSE <<Head(s)>> \o ListRemove(Tail(s), x)

Elems(s) == {s[i] : i \in 1..Len(s)}

\* ------------------------------------------------ the shared state record
\* The part of the state the pool's synchronous code reads and writes.
State == [handle_map |-> handle_map, size_sorted |-> size_sorted,
          wait_handles |-> wait_handles, quiet |-> quiet,
          group_limit |-> group_limit, kernel |-> kernel,
          pc |-> pc, snapshot |-> snapshot, signaled_handle |-> signaled_handle,
          outcome |-> outcome, delivered |-> delivered, reported |-> reported]

Commit(S) ==
    \E T \in {S} :
        /\ handle_map' = T.handle_map
        /\ size_sorted' = T.size_sorted
        /\ wait_handles' = T.wait_handles
        /\ quiet' = T.quiet
        /\ group_limit' = T.group_limit
        /\ kernel' = T.kernel
        /\ pc' = T.pc
        /\ snapshot' = T.snapshot
        /\ signaled_handle' = T.signaled_handle
        /\ outcome' = T.outcome
        /\ delivered' = T.delivered
        /\ reported' = T.reported

\* WaitGroup.__len__
WaitGroup_len(S, g) == Len(S.wait_handles[g]) + S.quiet[g]

\* ------------------------------------------------------------ the kernel
\* The wait of a blocked worker is satisfied by the lowest-index signaled
\* handle of the array it passed.
RECURSIVE FirstSignaled(_, _)
FirstSignaled(K, s) ==
    IF s = <<>> THEN 0
    ELSE IF K[Head(s)] = "signaled" THEN Head(s)
    ELSE FirstSignaled(K, Tail(s))

RegisteredFor(S, h) ==
    IF h \in DOMAIN S.handle_map THEN S.handle_map[h].callbacks ELSE {}

\* kernel32.SetEvent(x): x becomes signaled and every thread blocked in
\* WaitForMultipleObjects on an array holding x returns with x.
SetEvent(S, x) ==
    LET woke == {g \in Groups : S.pc[g] = "blocked" /\ x \in Elems(S.snapshot[g])}
    IN IF S.kernel[x] = "closed" THEN S ELSE
       [S EXCEPT !.kernel[x] = "signaled",
                 !.pc = [g \in Groups |-> IF g \in woke THEN "woken" ELSE S.pc[g]],
                 !.signaled_handle = [g \in Groups |->
                     IF g \in woke THEN x ELSE S.signaled_handle[g]],
                 !.reported = [g \in Groups |->
                     IF g \in woke THEN RegisteredFor(S, x) ELSE S.reported[g]]]

\* kernel32.CloseHandle(x)
CloseHandle(S, x) == [S EXCEPT !.kernel[x] = "closed"]

\* The handle kernel32.CreateEventA returns: an unused handle value.
FreeEvent(S) == CHOOSE e \in CancelEvents :
    /\ S.kernel[e] = "closed"
    /\ \A f \in CancelEvents : S.kernel[f] = "closed" => e <= f

\* kernel32.CreateEventA(NULL, True, False, NULL): manual reset, nonsignaled
CreateEventA(S) == [S EXCEPT !.kernel[FreeEvent(S)] = "nonsignaled"]

\* ------------------------------------------- SortedKeyList(key=len)
\* The list keeps each value's key as computed when the value was added.
RECURSIVE BisectRight(_, _)
BisectRight(idx, key) ==
    IF idx = <<>> \/ Head(idx).key > key THEN 0
    ELSE 1 + BisectRight(Tail(idx), key)

\* SortedKeyList.add(value)
SortedKeyList_add(S, g) ==
    LET key == WaitGroup_len(S, g)
        idx == S.size_sorted
        pos == BisectRight(idx, key)
    IN [S EXCEPT !.size_sorted =
            SubSeq(idx, 1, pos) \o <<[group |-> g, key |-> key]>>
                \o SubSeq(idx, pos + 1, Len(idx))]

\* SortedKeyList.discard(value): looks among the entries whose key is
\* len(value) for value itself; no entry, no effect.
SortedKeyList_discard(S, g) ==
    LET key == WaitGroup_len(S, g)
        idx == S.size_sorted
        hits == {i \in 1..Len(idx) : idx[i].key = key /\ idx[i].group = g}
    IN IF hits = {} THEN S
       ELSE LET i == CHOOSE i \in hits : \A j \in hits : i <= j
            IN [S EXCEPT !.size_sorted =
                    SubSeq(idx, 1, i - 1) \o SubSeq(idx, i + 1, Len(idx))]

\* SortedKeyList.pop(): the last entry, the one with the greatest key.
SortedKeyList_pop(S) ==
    [S EXCEPT !.size_sorted = SubSeq(S.size_sorted, 1, Len(S.size_sorted) - 1)]

SortedKeyList_last(S) == S.size_sorted[Len(S.size_sorted)].group

IndexGroups(S) == {S.size_sorted[i].group : i \in 1..Len(S.size_sorted)}

\* ------------------------------------------------------------ WaitGroup
\* The group object WaitGroup() allocates: an identity not in use.
FreshGroup(S) == CHOOSE g \in 1..S.group_limit :
    /\ S.wait_handles[g] = <<>>
    /\ \A f \in 1..S.group_limit : S.wait_handles[f] = <<>> => g <= f

HasFreshGroup(S) == \E g \in 1..S.group_limit : S.wait_handles[g] = <<>>

\* WaitGroup.__init__: create the cancel event, then wait_soon(), which in
\* this mode is wait_soon_thread: start_thread_soon(fn, deliver).
WaitGroup_init(S) ==
    LET g == FreshGroup(S)
        e == FreeEvent(S)
        S1 == CreateEventA(S)
    IN [S1 EXCEPT !.wait_handles[g] = <<e>>,
                  !.pc[g] = "start"]

\* WaitGroup.add
WaitGroup_add(S, g, handle) ==
    [S EXCEPT !.wait_handles[g] = Append(S.wait_handles[g], handle)]

\* WaitGroup.remove: list.remove, ValueError when the handle is not there
WaitGroup_remove(S, g, handle) ==
    [S EXCEPT !.wait_handles[g] = ListRemove(S.wait_handles[g], handle)]

\* WaitGroup.wake that also closes the event it set and puts a new one in
\* its place.
wake_installs_fresh(S, g) ==
    LET S1 == CloseHandle(SetEvent(S, S.wait_handles[g][1]), S.wait_handles[g][1])
        e == FreeEvent(S1)
    IN [CreateEventA(S1) EXCEPT !.wait_handles[g][1] = e]

\* WaitGroup.wake
wake(S, g) == SetEvent(S, S.wait_handles[g][1])

\* ------------------------------------------------------------- WaitPool
\* WaitPool.mutating without the discard.
mutating_enter_no_discard(S, g) == S

\* WaitPool.mutating, before the yield
mutating_enter(S, g) == SortedKeyList_discard(S, g)

\* WaitPool.mutating with `<=` for `<` in the finally clause.
mutating_exit_off_by_one(S, g) ==
    IF 1 < WaitGroup_len(S, g) /\ WaitGroup_len(S, g) <= MAXIMUM_WAIT_OBJECTS
    THEN SortedKeyList_add(S, g)
    ELSE S

\* WaitPool.mutating with `0 < len(wait_group)` in the finally clause.
mutating_exit_keeps_empty(S, g) ==
    IF 0 < WaitGroup_len(S, g) /\ WaitGroup_len(S, g) < MAXIMUM_WAIT_OBJECTS
    THEN SortedKeyList_add(S, g)
    ELSE S

\* WaitPool.mutating, the finally clause
mutating_exit(S, g) ==
    IF 1 < WaitGroup_len(S, g) /\ WaitGroup_len(S, g) < MAXIMUM_WAIT_OBJECTS
    THEN SortedKeyList_add(S, g)
    ELSE S

\* WaitPool.add with `WaitGroup()` for every handle, the index never asked.
add_choose_always_new(S) ==
    [g |-> FreshGroup(S), S |-> WaitGroup_init(S)]

\* WaitPool.add without `wait_group.wake()`.
add_choose_no_wake(S) ==
    IF S.size_sorted = <<>>
    THEN [g |-> FreshGroup(S), S |-> WaitGroup_init(S)]
    ELSE [g |-> SortedKeyList_last(S), S |-> SortedKeyList_pop(S)]

\* WaitPool.add with `self._size_sorted_wait_groups.pop(0)`.
add_choose_smallest(S) ==
    IF S.size_sorted = <<>>
    THEN [g |-> FreshGroup(S), S |-> WaitGroup_init(S)]
    ELSE [g |-> Head(S.size_sorted).group,
          S |-> wake([S EXCEPT !.size_sorted = Tail(S.size_sorted)],
                     Head(S.size_sorted).group)]

\* The group WaitPool.add puts a new handle in, and the state once it is chosen.
add_choose(S) ==
    IF S.size_sorted = <<>>
    THEN [g |-> FreshGroup(S), S |-> WaitGroup_init(S)]
    ELSE [g |-> SortedKeyList_last(S),
          S |-> wake(SortedKeyList_pop(S), SortedKeyList_last(S))]

\* WaitPool.add can allocate the group it needs (a bound of the model).
CanAdd(S, handle) ==
    handle \in DOMAIN S.handle_map \/ S.size_sorted # <<>> \/ HasFreshGroup(S)

\* WaitPool.add waking the handle's group on its shortcut path.
WaitPool_add_wakes_always(S, handle, callback) ==
    IF handle \in DOMAIN S.handle_map
    THEN wake([S EXCEPT !.handle_map[handle].callbacks = @ \cup {callback}],
              S.handle_map[handle].wait_group)
    ELSE LET c == add_choose(S)
             g == c.g
             S1 == [c.S EXCEPT !.handle_map =
                       [h \in DOMAIN S.handle_map \cup {handle} |->
                           IF h = handle
                           THEN [callbacks |-> {callback}, wait_group |-> g]
                           ELSE S.handle_map[h]]]
         IN mutating_exit(WaitGroup_add(mutating_enter(S1, g), g, handle), g)

\* WaitPool.add with `wait_group.add(handle)` after the `with` block.
WaitPool_add_after_mutating(S, handle, callback) ==
    IF handle \in DOMAIN S.handle_map
    THEN [S EXCEPT !.handle_map[handle].callbacks = @ \cup {callback}]
    ELSE LET c == add_choose(S)
             g == c.g
             S1 == [c.S EXCEPT !.handle_map =
                       [h \in DOMAIN S.handle_map \cup {handle} |->
                           IF h = handle
                           THEN [callbacks |-> {callback}, wait_group |-> g]
                           ELSE S.handle_map[h]]]
         IN WaitGroup_add(mutating_exit(mutating_enter(S1, g), g), g, handle)

\* WaitPool.add
WaitPool_add(S, handle, callback) ==
    IF handle \in DOMAIN S.handle_map
    THEN [S EXCEPT !.handle_map[handle].callbacks = @ \cup {callback}]
    ELSE LET c == add_choose(S)
             g == c.g
             S1 == [c.S EXCEPT !.handle_map =
                       [h \in DOMAIN S.handle_map \cup {handle} |->
                           IF h = handle
                           THEN [callbacks |-> {callback}, wait_group |-> g]
                           ELSE S.handle_map[h]]]
         IN mutating_exit(WaitGroup_add(mutating_enter(S1, g), g, handle), g)

\* WaitPool.add for a handle that is not in the pool and that nobody signals
\* or unregisters afterwards: the group's list grows by one quiet handle.
WaitPool_add_quiet(S) ==
    LET c == add_choose(S)
        g == c.g
    IN mutating_exit([mutating_enter(c.S, g) EXCEPT !.quiet[g] = @ + 1], g)

MapWithout(hm, handle) == [h \in DOMAIN hm \ {handle} |-> hm[h]]

\* WaitPool.remove without `callbacks.remove(callback)` taking effect when
\* other callbacks stay.
WaitPool_remove_keeps_callback(S, handle, callback) ==
    IF handle \notin DOMAIN S.handle_map
    THEN [S |-> S, raised |-> "KeyError"]
    ELSE IF callback \notin S.handle_map[handle].callbacks
    THEN [S |-> S, raised |-> "KeyError"]
    ELSE IF S.handle_map[handle].callbacks # {callback}
    THEN [S |-> S, raised |-> "none"]
    ELSE LET g == S.handle_map[handle].wait_group
             S1 == [S EXCEPT !.handle_map = MapWithout(S.handle_map, handle)]
             S2 == mutating_enter(wake(S1, g), g)
         IN IF handle \in Elems(S2.wait_handles[g])
            THEN [S |-> mutating_exit(WaitGroup_remove(S2, g, handle), g),
                  raised |-> "none"]
            ELSE [S |-> mutating_exit(S2, g), raised |-> "ValueError"]

\* WaitPool.remove with the wake moved ahead of `callbacks.remove(callback)`.
WaitPool_remove_wakes_first(S, handle, callback) ==
    IF handle \notin DOMAIN S.handle_map
    THEN [S |-> S, raised |-> "KeyError"]
    ELSE LET g == S.handle_map[handle].wait_group
             W == wake(S, g)
         IN IF callback \notin W.handle_map[handle].callbacks
            THEN [S |-> W, raised |-> "KeyError"]
            ELSE IF W.handle_map[handle].callbacks # {callback}
            THEN [S |-> [W EXCEPT !.handle_map[handle].callbacks = @ \ {callback}],
                  raised |-> "none"]
            ELSE LET S1 == [W EXCEPT !.handle_map = MapWithout(W.handle_map, handle)]
                     S2 == mutating_enter(S1, g)
                 IN IF handle \in Elems(S2.wait_handles[g])
                    THEN [S |-> mutating_exit(WaitGroup_remove(S2, g, handle), g),
                          raised |-> "none"]
                    ELSE [S |-> mutating_exit(S2, g), raised |-> "ValueError"]

\* WaitPool.remove without its last statement, `wait_group.remove(handle)`.
WaitPool_remove_keeps_handle(S, handle, callback) ==
    IF handle \notin DOMAIN S.handle_map
    THEN [S |-> S, raised |-> "KeyError"]
    ELSE IF callback \notin S.handle_map[handle].callbacks
    THEN [S |-> S, raised |-> "KeyError"]
    ELSE IF S.handle_map[handle].callbacks # {callback}
    THEN [S |-> [S EXCEPT !.handle_map[handle].callbacks = @ \ {callback}],
          raised |-> "none"]
    ELSE LET g == S.handle_map[handle].wait_group
             S1 == [S EXCEPT !.handle_map = MapWithout(S.handle_map, handle)]
         IN [S |-> mutating_exit(mutating_enter(wake(S1, g), g), g),
             raised |-> "none"]

\* WaitPool.remove calling `wait_group.wake()` before its early return.
WaitPool_remove_wakes_early(S, handle, callback) ==
    IF handle \notin DOMAIN S.handle_map
    THEN [S |-> S, raised |-> "KeyError"]
    ELSE IF callback \notin S.handle_map[handle].callbacks
    THEN [S |-> S, raised |-> "KeyError"]
    ELSE IF S.handle_map[handle].callbacks # {callback}
    THEN [S |-> wake([S EXCEPT !.handle_map[handle].callbacks = @ \ {callback}],
                     S.handle_map[handle].wait_group),
          raised |-> "none"]
    ELSE LET g == S.handle_map[handle].wait_group
             S1 == [S EXCEPT !.handle_map = MapWithout(S.handle_map, handle)]
             S2 == mutating_enter(wake(S1, g), g)
         IN IF handle \in Elems(S2.wait_handles[g])
            THEN [S |-> mutating_exit(WaitGroup_remove(S2, g, handle), g),
                  raised |-> "none"]
            ELSE [S |-> mutating_exit(S2, g), raised |-> "ValueError"]

\* WaitPool.remove with `callbacks.discard(callback)`.
WaitPool_remove_discards(S, handle, callback) ==
    IF handle \notin DOMAIN S.handle_map
    THEN [S |-> S, raised |-> "KeyError"]
    ELSE IF S.handle_map[handle].callbacks \ {callback} # {}
    THEN [S |-> [S EXCEPT !.handle_map[handle].callbacks = @ \ {callback}],
          raised |-> "none"]
    ELSE LET g == S.handle_map[handle].wait_group
             S1 == [S EXCEPT !.handle_map = MapWithout(S.handle_map, handle)]
             S2 == mutating_enter(wake(S1, g), g)
         IN IF handle \in Elems(S2.wait_handles[g])
            THEN [S |-> mutating_exit(WaitGroup_remove(S2, g, handle), g),
                  raised |-> "none"]
            ELSE [S |-> mutating_exit(S2, g), raised |-> "ValueError"]

\* WaitPool.remove: the state it leaves and the exception it raises.
WaitPool_remove(S, handle, callback) ==
    IF handle \notin DOMAIN S.handle_map
    THEN [S |-> S, raised |-> "KeyError"]
    ELSE IF callback \notin S.handle_map[handle].callbacks
    THEN [S |-> S, raised |-> "KeyError"]
    ELSE IF S.handle_map[handle].callbacks # {callback}
    THEN [S |-> [S EXCEPT !.handle_map[handle].callbacks = @ \ {callback}],
          raised |-> "none"]
    ELSE LET g == S.handle_map[handle].wait_group
             S1 == [S EXCEPT !.handle_map = MapWithout(S.handle_map, handle)]
             S2 == mutating_enter(wake(S1, g), g)
         IN IF handle \in Elems(S2.wait_handles[g])
            THEN [S |-> mutating_exit(WaitGroup_remove(S2, g, handle), g),
                  raised |-> "none"]
            ELSE [S |-> mutating_exit(S2, g), raised |-> "ValueError"]

\* ------------------------------------------------- what callers observe
\* The (handle, callback) pairs that can be registered.
Jobs == Handles \X AllCallbacks

\* The pairs the callers of Spec register: handle 1 with every callback.
RawJobs == {j \in Handles \X Callbacks : j[1] = 1}

\* The pairs the callers of SpecFull register: every handle with callback 1.
FullJobs == {j \in Handles \X Callbacks : j[2] = 1}

JobHandles(J) == {j[1] : j \in J}

\* What the holder of the tokens of job (handle, callback) has seen happen:
\*   idle         no RegisterWaitForSingleObject yet
\*   registered   one registration made and neither unregistered nor fired
\*   registered2  two such registrations
\*   cancelled    UnregisterWait returned True for the last one
\*   fired        the callback was called
\*   released     UnregisterWait returned False after the callback was called
\*   notfound     a further UnregisterWait returned False
\*   lost         UnregisterWait returned False for a registration still held
\*   fired_after_unregister, fired_again, fired_unreported: the callback was
\*   called after UnregisterWait returned True, with no registration held,
\*   or without a report of its handle made while it was registered
JobAfterRegister(js) ==
    IF js \in {"registered", "registered2"} THEN "registered2" ELSE "registered"

Fired == {"fired", "fired_after_unregister", "fired_unreported", "fired_again"}

JobAfterUnregister(js, r) ==
    IF r = "True"
    THEN (IF js = "registered2" THEN "registered" ELSE "cancelled")
    ELSE IF r # "False" \/ js = "idle" THEN js
    ELSE IF js \in {"registered", "registered2"} THEN "lost"
    ELSE IF js \in Fired THEN "released"
    ELSE "notfound"

JobAfterCallback(js, was_reported) ==
    IF js = "cancelled" THEN "fired_after_unregister"
    ELSE IF js \notin {"registered", "registered2"} THEN "fired_again"
    ELSE IF ~was_reported THEN "fired_unreported"
    ELSE "fired"

\* The registration of callback for handle is over: a report made while it
\* was in the pool no longer speaks of a registration.
Forget(S, handle, callback) ==
    [S EXCEPT !.reported = [g \in Groups |->
        IF S.pc[g] = "woken" /\ S.signaled_handle[g] = handle
        THEN S.reported[g] \ {callback} ELSE S.reported[g]]]

\* deliver(outcome) queues outcome.unwrap on the run loop: an exception of
\* a worker thread ends the run, and with it the callers of the API.
RunLoopAlive == delivered = {}

\* ------------------------------------- the synchronous registration API
\* RegisterWaitForSingleObject_trio(handle, callback), the whole
\* `with wait_pool.lock` block; the token returned is (handle, callback).
RegisterWaitForSingleObject_trio(handle, callback) ==
    /\ lock = 0
    /\ RunLoopAlive
    /\ CanAdd(State, handle)
    /\ job_state[<<handle, callback>>] # "registered2"
    /\ Commit(WaitPool_add(State, handle, callback))
    /\ job_state' = [job_state EXCEPT ![<<handle, callback>>] = JobAfterRegister(@)]
    /\ UNCHANGED workervars

\* RegisterWaitForSingleObject_trio for a quiet handle.
RegisterQuiet ==
    /\ lock = 0
    /\ RunLoopAlive
    /\ size_sorted # <<>> \/ HasFreshGroup(State)
    /\ Commit(WaitPool_add_quiet(State))
    /\ UNCHANGED <<workervars, job_state>>

\* What UnregisterWait_trio returns, or the exception that escapes it.
UnregisterWait_ret(raised) ==
    IF raised = "KeyError" THEN "False"
    ELSE IF raised = "none" THEN "True"
    ELSE raised

ReturnValues == {"True", "False", "ValueError"}

\* UnregisterWait_trio(cancel_token) with cancel_token = (handle, callback),
\* returning rv.
UnregisterWait_trio(handle, callback, rv) ==
    /\ lock = 0
    /\ RunLoopAlive
    /\ LET r == WaitPool_remove(State, handle, callback)
       IN /\ rv = UnregisterWait_ret(r.raised)
          /\ Commit(IF rv = "True" THEN Forget(r.S, handle, callback) ELSE r.S)
          /\ job_state' = [job_state EXCEPT
                              ![<<handle, callback>>] = JobAfterUnregister(@, rv)]
    /\ UNCHANGED workervars

\* --------------------------------------------------- the environment
\* Somebody signals a user handle (a manual-reset object).
UserSetEvent(h) ==
    /\ kernel[h] = "nonsignaled"
    /\ Commit(SetEvent(State, h))
    /\ UNCHANGED <<workervars, job_state>>

\* Somebody resets a user handle.
UserResetEvent(h) ==
    /\ kernel[h] = "signaled"
    /\ Commit([State EXCEPT !.kernel[h] = "nonsignaled"])
    /\ UNCHANGED <<workervars, job_state>>

\* ------------------------------------------------------ the worker thread
\* drain_as_completed_sync with `while True`.
AfterHandlesLeft_never_done(S, g) ==
    [S EXCEPT !.pc[g] = "loop", !.reported[g] = {}]

\* Where the loop of drain_as_completed_sync goes with handles_left computed.
AfterHandlesLeft(S, g) ==
    [S EXCEPT !.pc[g] = IF WaitGroup_len(S, g) - 1 # 0 THEN "loop" ELSE "closing",
              !.reported[g] = {}]

\* drain_as_completed_sync entering its blocks without the lock.
lock_acquire_skipped(g) == TRUE

\* `with wait_pool.lock:` in drain_as_completed_sync: the worker of group g
\* enters once no thread holds the lock.
lock_acquire(g) == lock = 0

\* drain_as_completed_sync, the first `with wait_pool.lock` block
WorkerStart(g) ==
    /\ pc[g] = "start"
    /\ lock_acquire(g)
    /\ Commit(AfterHandlesLeft(State, g))
    /\ UNCHANGED <<workervars, job_state>>

\* WaitForMultipleObjects_sync(*self._wait_handles): the tuple is built
\* from the list as it is now, without the lock; the call returns at once
\* when a handle of the tuple is signaled and blocks otherwise.
WaitForMultipleObjects_sync(S, g) ==
    LET handles == S.wait_handles[g]
        n == WaitGroup_len(S, g)
        first == FirstSignaled(S.kernel, handles)
    IN IF ~(n <= MAXIMUM_WAIT_OBJECTS)
       THEN [S EXCEPT !.pc[g] = "raised", !.outcome[g] = "AssertionError"]
       ELSE IF first # 0
       THEN [S EXCEPT !.snapshot[g] = handles, !.pc[g] = "woken",
                      !.signaled_handle[g] = first,
                      !.reported[g] = RegisteredFor(S, first)]
       ELSE [S EXCEPT !.snapshot[g] = handles, !.pc[g] = "blocked"]

WorkerWait(g) ==
    /\ pc[g] = "loop"
    /\ Commit(WaitForMultipleObjects_sync(State, g))
    /\ UNCHANGED <<workervars, job_state>>

\* kernel32.WaitForMultipleObjects returns WAIT_FAILED: raise_winerror()
\* raises OSError out of WaitForMultipleObjects_sync and, nothing catching
\* it, out of drain_as_completed_sync.
WaitForMultipleObjects_failed(S, g) ==
    [S EXCEPT !.snapshot[g] = S.wait_handles[g], !.pc[g] = "raised",
              !.outcome[g] = "OSError"]

WorkerWaitFailed(g) ==
    /\ pc[g] = "loop"
    /\ Commit(WaitForMultipleObjects_failed(State, g))
    /\ UNCHANGED <<workervars, job_state>>

\* drain_one closing `self._wait_handles[-1]` in its first branch.
drain_one_cancel_closes_last(S, g) ==
    LET S1 == CloseHandle(S, S.wait_handles[g][Len(S.wait_handles[g])])
        e == FreeEvent(S1)
        S2 == CreateEventA(S1)
    IN [S2 EXCEPT !.wait_handles[g][1] = e]

\* drain_one, the branch `signaled_handle is self._wait_handles[0]`
drain_one_cancel_no_create(S, g) ==
    CloseHandle(S, S.wait_handles[g][1])

drain_one_cancel(S, g) ==
    LET S1 == CloseHandle(S, S.wait_handles[g][1])
        e == FreeEvent(S1)
        S2 == CreateEventA(S1)
    IN [S2 EXCEPT !.wait_handles[g][1] = e]

\* drain_one with `self._handle_map[handle]` for `self._handle_map.pop(handle)`.
drain_one_handle_no_pop(S, g) ==
    LET h == S.signaled_handle[g]
        S1 == mutating_enter(S, g)
    IN IF h \notin Elems(S1.wait_handles[g])
       THEN [S |-> mutating_exit(S1, g), raised |-> "ValueError", callbacks |-> {}]
       ELSE LET S2 == mutating_exit(WaitGroup_remove(S1, g, h), g)
            IN IF h \notin DOMAIN S2.handle_map
               THEN [S |-> S2, raised |-> "KeyError", callbacks |-> {}]
               ELSE [S |-> S2, raised |-> "none",
                     callbacks |-> S2.handle_map[h].callbacks]

\* drain_one, the else branch up to the pop of remove_and_execute_callbacks:
\* the state, the callbacks popped and the exception raised.
drain_one_handle(S, g) ==
    LET h == S.signaled_handle[g]
        S1 == mutating_enter(S, g)
    IN IF h \notin Elems(S1.wait_handles[g])
       THEN [S |-> mutating_exit(S1, g), raised |-> "ValueError", callbacks |-> {}]
       ELSE LET S2 == mutating_exit(WaitGroup_remove(S1, g, h), g)
            IN IF h \notin DOMAIN S2.handle_map
               THEN [S |-> S2, raised |-> "KeyError", callbacks |-> {}]
               ELSE [S |-> [S2 EXCEPT !.handle_map = MapWithout(S2.handle_map, h)],
                     raised |-> "none",
                     callbacks |-> S2.handle_map[h].callbacks]

\* The worker takes the lock after WaitForMultipleObjects returned and runs
\* drain_one; with a user handle reported it goes on, still holding the
\* lock, to call the callbacks popped.
WorkerDrain(g) ==
    /\ pc[g] = "woken"
    /\ lock_acquire(g)
    /\ IF signaled_handle[g] = wait_handles[g][1]
       THEN /\ Commit(AfterHandlesLeft(drain_one_cancel(State, g), g))
            /\ UNCHANGED workervars
       ELSE LET r == drain_one_handle(State, g)
            IN IF r.raised # "none"
               THEN /\ Commit([r.S EXCEPT !.pc[g] = "raised",
                                          !.outcome[g] = r.raised])
                    /\ UNCHANGED workervars
               ELSE /\ Commit([r.S EXCEPT !.pc[g] = "callbacks"])
                    /\ lock' = g
                    /\ pending' = [pending EXCEPT ![g] = r.callbacks]
                    /\ pending_handle' = [pending_handle EXCEPT
                                             ![g] = signaled_handle[g]]
    /\ UNCHANGED job_state
\* wakeup() without the run_sync_soon.
wakeup_no_reschedule(t) ==
    /\ reschedule_in_flight' = [reschedule_in_flight EXCEPT ![t] = TRUE]
    /\ UNCHANGED <<task_pc, task_obj, entry_queue, retcode, abort_ret>>

\* wakeup() without `reschedule_in_flight[0] = True`.
wakeup_no_latch(t) ==
    /\ entry_queue' = entry_queue \cup {t}
    /\ UNCHANGED <<task_pc, task_obj, reschedule_in_flight, retcode, abort_ret>>

\* wakeup() of WaitForSingleObject_pool: set the latch, then
\* trio_token.run_sync_soon(_core.reschedule, task, idempotent=True)
wakeup(t) ==
    /\ reschedule_in_flight' = [reschedule_in_flight EXCEPT ![t] = TRUE]
    /\ entry_queue' = entry_queue \cup {t}
    /\ UNCHANGED <<task_pc, task_obj, retcode, abort_ret>>

\* remove_and_execute_callbacks, one turn of the for-loop: callback()
WorkerCallback(g) ==
    /\ pc[g] = "callbacks"
    /\ \E cb \in pending[g] :
        /\ pending' = [pending EXCEPT ![g] = @ \ {cb}]
        /\ job_state' = [job_state EXCEPT ![<<pending_handle[g], cb>>] =
                            JobAfterCallback(@, cb \in reported[g])]
        /\ IF cb \in Wakeups THEN wakeup(task_of(cb)) ELSE UNCHANGED taskvars
    /\ UNCHANGED <<poolvars, lock, pending_handle, reported>>

\* The for-loop is over: drain_one returns len(self._wait_handles) - 1 and
\* the `with wait_pool.lock` block of drain_as_completed_sync ends.
WorkerDrained(g) ==
    /\ pc[g] = "callbacks"
    /\ pending[g] = {}
    /\ Commit(AfterHandlesLeft(State, g))
    /\ lock' = 0
    /\ pending_handle' = [pending_handle EXCEPT ![g] = 0]
    /\ UNCHANGED <<pending, job_state>>

\* A group object some reference of the pool still leads to.
Reachable(S, g) ==
    \/ g \in IndexGroups(S)
    \/ S.quiet[g] > 0
    \/ \E h \in DOMAIN S.handle_map : S.handle_map[h].wait_group = g

\* wait_soon_thread with a deliver that ignores the outcome.
wait_soon_thread_finally_drops(S, g) ==
    LET S2 == CloseHandle(S, S.wait_handles[g][1])
    IN IF Reachable(S2, g)
       THEN [S2 EXCEPT !.pc[g] = "exited", !.reported[g] = {}]
       ELSE [S2 EXCEPT !.pc[g] = "none", !.wait_handles[g] = <<>>,
                       !.quiet[g] = 0, !.snapshot[g] = <<>>,
                       !.signaled_handle[g] = 0, !.outcome[g] = "none",
                       !.reported[g] = {}]

\* fn of wait_soon_thread, the finally clause, and the end of the thread:
\* deliver(outcome) hands an exception to the run loop.  A group object
\* nothing refers to any more is garbage.
wait_soon_thread_finally(S, g) ==
    LET S1 == CloseHandle(S, S.wait_handles[g][1])
        S2 == [S1 EXCEPT !.delivered =
                  IF S.outcome[g] = "none" THEN @ ELSE @ \cup {S.outcome[g]}]
    IN IF Reachable(S2, g)
       THEN [S2 EXCEPT !.pc[g] = "exited", !.reported[g] = {}]
       ELSE [S2 EXCEPT !.pc[g] = "none", !.wait_handles[g] = <<>>,
                       !.quiet[g] = 0, !.snapshot[g] = <<>>,
                       !.signaled_handle[g] = 0, !.outcome[g] = "none",
                       !.reported[g] = {}]

WorkerClose(g) ==
    /\ pc[g] \in {"closing", "raised"}
    /\ Commit(wait_soon_thread_finally(State, g))
    /\ UNCHANGED <<workervars, job_state>>

\* ----------------------------------------------- WaitForSingleObject_pool
\* The run loop is single threaded: nothing else runs on it while abort does.
TrioThreadFree == \A t \in Tasks : task_pc[t] # "aborting"

\* The quick check never taken.
is_signaled_never(h) == FALSE

\* _is_signaled(handle)
is_signaled(h) == kernel[h] # "nonsignaled"

\* WaitForSingleObject_pool(obj) up to the quick check.
TaskCall(t, h) ==
    /\ TrioThreadFree
    /\ task_pc[t] = "idle"
    /\ task_obj' = [task_obj EXCEPT ![t] = h]
    /\ reschedule_in_flight' = [reschedule_in_flight EXCEPT ![t] = FALSE]
    /\ abort_ret' = [abort_ret EXCEPT ![t] = "none"]
    /\ task_pc' = [task_pc EXCEPT ![t] = IF is_signaled(h) THEN "done" ELSE "registering"]
    /\ UNCHANGED <<poolvars, workervars, histvars, entry_queue, retcode>>

\* cancel_token = RegisterWaitForSingleObject(handle, wakeup), then
\* wait_task_rescheduled(abort) suspends the task.
TaskRegister(t) ==
    /\ TrioThreadFree
    /\ task_pc[t] = "registering"
    /\ RegisterWaitForSingleObject_trio(task_obj[t], wakeup_of(t))
    /\ task_pc' = [task_pc EXCEPT ![t] = "suspended"]
    /\ UNCHANGED <<task_obj, reschedule_in_flight, entry_queue, retcode, abort_ret>>

\* The task is cancelled while suspended: the run loop calls abort, which
\* starts with retcode = UnregisterWait(cancel_token).
AbortUnregister(t) ==
    /\ TrioThreadFree
    /\ task_pc[t] = "suspended"
    /\ abort_ret[t] = "none"
    /\ \E rv \in ReturnValues :
          /\ UnregisterWait_trio(task_obj[t], wakeup_of(t), rv)
          /\ retcode' = [retcode EXCEPT ![t] = rv]
    /\ task_pc' = [task_pc EXCEPT ![t] = "aborting"]
    /\ UNCHANGED <<task_obj, reschedule_in_flight, entry_queue, abort_ret>>

\* abort without the latch.
abort_without_latch(rc, latch) ==
    IF rc = "True" THEN "SUCCEEDED" ELSE "RuntimeError"

\* What abort returns for retcode and the latch (ERROR_IO_PENDING is no
\* value UnregisterWait_trio returns).
abort(rc, latch) ==
    IF latch THEN "FAILED"
    ELSE IF rc = "True" THEN "SUCCEEDED"
    ELSE "RuntimeError"

\* abort reads the latch and returns; Abort.SUCCEEDED makes
\* wait_task_rescheduled raise Cancelled in the task.
AbortReturn(t) ==
    /\ task_pc[t] = "aborting"
    /\ LET a == abort(retcode[t], reschedule_in_flight[t])
       IN /\ abort_ret' = [abort_ret EXCEPT ![t] = a]
          /\ task_pc' = [task_pc EXCEPT ![t] =
                IF a = "FAILED" THEN "suspended"
                ELSE IF a = "SUCCEEDED" THEN "cancelled"
                ELSE "abort_raised"]
          /\ retcode' = [retcode EXCEPT ![t] = "none"]
    /\ UNCHANGED <<poolvars, workervars, histvars, task_obj, reschedule_in_flight,
                   entry_queue>>

\* The run loop runs the queued _core.reschedule(task).
Dispatch(t) ==
    /\ TrioThreadFree
    /\ t \in entry_queue
    /\ entry_queue' = entry_queue \ {t}
    /\ task_pc' = [task_pc EXCEPT ![t] =
          IF task_pc[t] = "suspended" THEN "resumed" ELSE "rescheduled_not_suspended"]
    /\ UNCHANGED <<poolvars, workervars, histvars, task_obj, reschedule_in_flight,
                   retcode, abort_ret>>

\* The task runs again: the unconditional UnregisterWait(cancel_token).
TaskResume(t) ==
    /\ TrioThreadFree
    /\ task_pc[t] = "resumed"
    /\ \E rv \in ReturnValues : UnregisterWait_trio(task_obj[t], wakeup_of(t), rv)
    /\ task_pc' = [task_pc EXCEPT ![t] = "done"]
    /\ UNCHANGED <<task_obj, reschedule_in_flight, entry_queue, retcode, abort_ret>>

\* ------------------------------------------------------- specifications
\* A pool some earlier registrations left: nothing, or one group with
\* `q` quiet handles whose worker is blocked on them.
\* _wait_handles of a group one user handle short of full: the cancel event
\* and MAXIMUM_WAIT_OBJECTS - 2 user handles.
FullButOne == MAXIMUM_WAIT_OBJECTS - 2

InitPool(q) ==
    /\ handle_map = <<>>
    /\ size_sorted = IF q = 0 THEN <<>> ELSE <<[group |-> 1, key |-> q + 1]>>
    /\ wait_handles = [g \in Groups |-> IF q # 0 /\ g = 1 THEN <<NumHandles + 1>> ELSE <<>>]
    /\ quiet = [g \in Groups |-> IF g = 1 THEN q ELSE 0]
    /\ kernel = [x \in KernelObjects |->
          IF x \in Handles \/ (q # 0 /\ x = NumHandles + 1)
          THEN "nonsignaled" ELSE "closed"]
    /\ pc = [g \in Groups |-> IF q # 0 /\ g = 1 THEN "blocked" ELSE "none"]
    /\ snapshot = [g \in Groups |-> IF q # 0 /\ g = 1 THEN <<NumHandles + 1>> ELSE <<>>]
    /\ signaled_handle = [g \in Groups |-> 0]
    /\ outcome = [g \in Groups |-> "none"]
    /\ delivered = {}

\* No more than GroupLimit groups at a time.
InitLimit == group_limit = GroupLimit

InitRest ==
    /\ lock = 0
    /\ pending = [g \in Groups |-> {}]
    /\ pending_handle = [g \in Groups |-> 0]
    /\ job_state = [j \in Jobs |-> "idle"]
    /\ reported = [g \in Groups |-> {}]
    /\ task_pc = [t \in Tasks |-> "idle"]
    /\ task_obj = [t \in Tasks |-> 0]
    /\ reschedule_in_flight = [t \in Tasks |-> FALSE]
    /\ entry_queue = {}
    /\ retcode = [t \in Tasks |-> "none"]
    /\ abort_ret = [t \in Tasks |-> "none"]

Init == (\E q \in {0, 1} : InitPool(q)) /\ InitLimit /\ InitRest

InitFull ==
    (\E q \in {FullButOne - 1, FullButOne} : InitPool(q)) /\ InitLimit /\ InitRest

\* The empty pool, with room for MaxGroups groups.
InitFill == InitPool(0) /\ group_limit = MaxGroups /\ InitRest

\* One worker thread.
Worker(g) ==
    \/ WorkerStart(g) /\ UNCHANGED taskvars
    \/ WorkerWait(g) /\ UNCHANGED taskvars
    \/ WorkerDrain(g) /\ UNCHANGED taskvars
    \/ WorkerCallback(g)
    \/ WorkerDrained(g) /\ UNCHANGED taskvars
    \/ WorkerClose(g) /\ UNCHANGED taskvars

\* Callers of the synchronous API registering and unregistering the jobs J.
Callers(J) ==
    \/ \E j \in J :
          RegisterWaitForSingleObject_trio(j[1], j[2]) /\ UNCHANGED taskvars
    \/ \E j \in J, rv \in ReturnValues :
          UnregisterWait_trio(j[1], j[2], rv) /\ UNCHANGED taskvars

\* Whoever owns the handles Hs signals and resets them.
Environment(Hs) ==
    \/ \E h \in Hs : UserSetEvent(h) /\ UNCHANGED taskvars
    \/ \E h \in Hs : UserResetEvent(h) /\ UNCHANGED taskvars

\* The worker threads of the groups.
Workers == \E g \in Groups : Worker(g)

Next == Callers(RawJobs) \/ Environment(JobHandles(RawJobs)) \/ Workers

\* Callers of the API on an empty pool or on a pool holding one quiet handle.
Spec == Init /\ [][Next]_vars

NextFull == Callers(FullJobs) \/ Environment(JobHandles(FullJobs)) \/ Workers

\* Callers of the API on a pool whose one group is one or two handles short
\* of full.
SpecFull == InitFull /\ [][NextFull]_vars

\* Tasks calling WaitForSingleObject_pool, each for its own handle or for
\* handle 1, cancelled at any time, and the run loop.
TaskHandles(t) == {h \in Handles : h = t \/ h = 1}

TaskStep ==
    \/ \E t \in Tasks : \E h \in TaskHandles(t) : TaskCall(t, h)
    \/ \E t \in Tasks : TaskRegister(t)
    \/ \E t \in Tasks : AbortUnregister(t)
    \/ \E t \in Tasks : AbortReturn(t)
    \/ \E t \in Tasks : Dispatch(t)
    \/ \E t \in Tasks : TaskResume(t)

SignalOnly == \E h \in Handles : UserSetEvent(h) /\ UNCHANGED taskvars

NextTask == TaskStep \/ SignalOnly \/ Workers

SpecTask == Init /\ [][NextTask]_vars

\* The scheduler runs every worker thread that can run.
SpecTaskFair == SpecTask /\ \A g \in Groups : WF_vars(Worker(g))

\* The run loop runs what run_sync_soon queued, and an abort it has begun
\* to its end.
SpecTaskRun ==
    SpecTask /\ \A t \in Tasks : WF_vars(Dispatch(t)) /\ WF_vars(AbortReturn(t))

\* Registrations only, of quiet handles and then of handle 1, which is
\* signaled once it is in the pool.
NextFill ==
    \/ job_state[<<1, 1>>] = "idle" /\ RegisterQuiet /\ UNCHANGED taskvars
    \/ /\ job_state[<<1, 1>>] = "idle"
       /\ RegisterWaitForSingleObject_trio(1, 1)
       /\ UNCHANGED taskvars
    \/ 1 \in DOMAIN handle_map /\ UserSetEvent(1) /\ UNCHANGED taskvars
    \/ Workers

SpecFill == InitFill /\ [][NextFill]_vars

\* A pool of two groups holding a and b quiet handles, b = 0 for a pool of
\* one group: what is left of more registrations once all but these were
\* unregistered. A group is in the index iff 1 < len < MAXIMUM_WAIT_OBJECTS.
InIndex(q) == 0 < q /\ q + 1 < MAXIMUM_WAIT_OBJECTS

InitTwo(a, b) ==
    /\ handle_map = <<>>
    /\ size_sorted =
          LET e1 == [group |-> 1, key |-> a + 1]
              e2 == [group |-> 2, key |-> b + 1]
          IN IF InIndex(a) /\ InIndex(b)
             THEN (IF a < b THEN <<e1, e2>> ELSE <<e2, e1>>)
             ELSE IF InIndex(a) THEN <<e1>>
             ELSE IF InIndex(b) THEN <<e2>>
             ELSE <<>>
    /\ wait_handles = [g \in Groups |->
          IF g = 1 \/ (g = 2 /\ b > 0) THEN <<NumHandles + g>> ELSE <<>>]
    /\ quiet = [g \in Groups |-> IF g = 1 THEN a ELSE IF g = 2 THEN b ELSE 0]
    /\ kernel = [x \in KernelObjects |->
          IF x \in Handles \/ x = NumHandles + 1 \/ (b > 0 /\ x = NumHandles + 2)
          THEN "nonsignaled" ELSE "closed"]
    /\ pc = [g \in Groups |->
          IF g = 1 \/ (g = 2 /\ b > 0) THEN "blocked" ELSE "none"]
    /\ snapshot = [g \in Groups |->
          IF g = 1 \/ (g = 2 /\ b > 0) THEN <<NumHandles + g>> ELSE <<>>]
    /\ signaled_handle = [g \in Groups |-> 0]
    /\ outcome = [g \in Groups |-> "none"]
    /\ delivered = {}

\* The pools SpecChoice starts from: two groups of different sizes, the
\* greater one allocated first or last, and one full group.
TwoGroups == {<<1, 2>>, <<2, 1>>, <<MAXIMUM_WAIT_OBJECTS - 1, 0>>}

InitChoice ==
    (\E ab \in TwoGroups : InitTwo(ab[1], ab[2])) /\ InitLimit /\ InitRest

\* The callers of SpecFull on such a pool.
SpecChoice == InitChoice /\ [][NextFull]_vars

\* The callers of Spec, with waits that can fail.
WaitFails == \E g \in Groups : WorkerWaitFailed(g) /\ UNCHANGED taskvars

NextFail == Next \/ WaitFails

SpecFail == Init /\ [][NextFail]_vars

\* ================================================================ claims

\* ---------------------------------------------------------------- C1
\* C1: a task suspended on a handle that is signaled (and in SpecTaskFair
\* stays signaled) has, with every worker thread scheduled fairly, its
\* wakeup called in the end, or it has been cancelled or resumed.
C1_NeverHangs ==
    \A t \in Tasks :
        (task_pc[t] = "suspended" /\ kernel[task_obj[t]] = "signaled")
        ~> (reschedule_in_flight[t] \/ task_pc[t] # "suspended")

\* ---------------------------------------------------------------- C2
\* C2: a task cancelled while it waits ends with exactly one outcome.  When
\* abort returned SUCCEEDED the task is cancelled, its latch is clear and no
\* reschedule of it is queued or was run; when abort returned FAILED the
\* wakeup has run, and the reschedule is queued or has resumed the task;
\* abort never raises and no reschedule meets a task that is not suspended.
C2_OneOutcome ==
    \A t \in Tasks :
        /\ abort_ret[t] = "SUCCEEDED" =>
              /\ task_pc[t] = "cancelled"
              /\ ~reschedule_in_flight[t]
              /\ t \notin entry_queue
        /\ abort_ret[t] = "FAILED" =>
              /\ reschedule_in_flight[t]
              /\ \/ t \in entry_queue /\ task_pc[t] = "suspended"
                 \/ task_pc[t] \in {"resumed", "done"}
        /\ abort_ret[t] # "RuntimeError"
        /\ task_pc[t] \notin {"abort_raised", "rescheduled_not_suspended"}

\* Both outcomes of the race at once: the handles of two tasks are signaled,
\* one task was cancelled in time and the other too late, its reschedule queued.
C2_Witness ==
    \E t, u \in Tasks :
        /\ abort_ret[t] = "SUCCEEDED"
        /\ kernel[task_obj[t]] = "signaled"
        /\ abort_ret[u] = "FAILED"
        /\ kernel[task_obj[u]] = "signaled"
        /\ u \in entry_queue

\* ---------------------------------------------------------------- C3
\* C3: a callback is never called once UnregisterWait has returned True for
\* its registration.
C3_NoCallbackAfterUnregister ==
    \A j \in Jobs : job_state[j] # "fired_after_unregister"

\* UnregisterWait returned True for a job whose handle a worker has already
\* been told is signaled.
C3_Witness ==
    \E j \in Jobs, g \in Groups :
        /\ job_state[j] = "cancelled"
        /\ pc[g] = "woken"
        /\ signaled_handle[g] = j[1]
        /\ kernel[j[1]] = "signaled"

\* ---------------------------------------------------------------- C4
\* C4: when a worker takes the lock with a user handle h reported, the
\* callbacks it goes on to call are exactly those registered for h then, and
\* h is no longer in the pool's map afterwards.
C4_ExactlyRegistered ==
    [][\A g \in Groups :
          (pc[g] = "woken" /\ pc'[g] # "woken" /\ signaled_handle[g] \in Handles)
          => /\ pending'[g] = RegisteredFor(State, signaled_handle[g])
             /\ signaled_handle[g] \notin DOMAIN handle_map']_vars

C6_ExecuteOnlyOnce ==
    \A j \in Jobs : job_state[j] \notin {"fired_again", "fired_unreported"}

\* ---------------------------------------------------------------- C7
RemoveLeavesPool ==
    UNCHANGED <<handle_map, size_sorted, wait_handles, quiet, group_limit, kernel, pc,
                snapshot, signaled_handle, outcome, delivered>>

\* C7: an UnregisterWait for a token already unregistered (or released after
\* its callback ran) returns False, raises nothing, wakes no worker and
\* leaves map, groups and index as they are.
C7_SecondUnregister ==
    [][\A j \in Jobs :
          (/\ job_state[j] \in {"cancelled", "released", "notfound"}
           /\ \E rv \in ReturnValues : UnregisterWait_trio(j[1], j[2], rv))
          => (job_state'[j] = "notfound" /\ RemoveLeavesPool)]_vars

\* A second UnregisterWait has returned False for a job whose handle is
\* still registered with another callback.
C7_Witness ==
    \E j \in Jobs :
        /\ job_state[j] = "notfound"
        /\ j[1] \in DOMAIN handle_map
        /\ handle_map[j[1]].callbacks # {}

\* ---------------------------------------------------------------- C8
\* C8: of two registrations of the same pair each lasts until its own
\* UnregisterWait: a registration not yet unregistered and not yet fired is
\* in the pool, and its UnregisterWait does not return False.
C8_TwoRegistrations ==
    \A j \in Jobs :
        /\ job_state[j] # "lost"
        /\ (lock = 0 /\ job_state[j] \in {"registered", "registered2"})
           => j[2] \in RegisteredFor(State, j[1])

\* ---------------------------------------------------------------- C9
\* What the round trip is to restore: the callbacks of each handle, the user
\* handles of each group the pool leads to, the groups in the index.
PoolView(S) ==
    [callbacks |-> [h \in DOMAIN S.handle_map |-> S.handle_map[h].callbacks],
     groups |-> {<<g, Tail(S.wait_handles[g]), S.quiet[g]>> :
                    g \in {f \in Groups : Reachable(S, f)}},
     index |-> IndexGroups(S)]

RoundTrip(S, handle, callback) ==
    WaitPool_remove(WaitPool_add(S, handle, callback), handle, callback)

\* C9: in every state in which a caller can take the lock, a register
\* followed at once by the unregister of its token restores the pool.
C9_RoundTrip ==
    (lock = 0 /\ RunLoopAlive) =>
        \A j \in RawJobs :
            CanAdd(State, j[1]) =>
                /\ RoundTrip(State, j[1], j[2]).raised = "none"
                /\ PoolView(RoundTrip(State, j[1], j[2]).S) = PoolView(State)

\* ---------------------------------------------------------------- C10
\* C10: no group ever holds more than MAXIMUM_WAIT_OBJECTS handles, cancel
\* event included, no worker passes more to WaitForMultipleObjects_sync,
\* and its assertion never fails.
C10_AtMost64 ==
    \A g \in Groups :
        /\ WaitGroup_len(State, g) <= MAXIMUM_WAIT_OBJECTS
        /\ Len(snapshot[g]) + quiet[g] <= MAXIMUM_WAIT_OBJECTS
        /\ outcome[g] # "AssertionError"
        /\ "AssertionError" \notin delivered

\* A worker is blocked on a full group while a second group holds the
\* handle that no longer fitted.
C10_Witness ==
    \E g, f \in Groups :
        /\ pc[g] = "blocked"
        /\ Len(snapshot[g]) + quiet[g] = MAXIMUM_WAIT_OBJECTS
        /\ f # g
        /\ WaitGroup_len(State, f) >= 2

\* ---------------------------------------------------------------- C11
MAX_WAIT == MAXIMUM_WAIT_OBJECTS - 1

\* The user handles of group g; a group object not allocated holds none.
UserHandles(S, g) ==
    IF S.wait_handles[g] = <<>> THEN 0 ELSE WaitGroup_len(S, g) - 1

RECURSIVE RegisteredUpTo(_, _)
RegisteredUpTo(S, k) ==
    IF k = 0 THEN 0 ELSE UserHandles(S, k) + RegisteredUpTo(S, k - 1)

\* The number of handles in the pool.
NumRegistered(S) == RegisteredUpTo(S, MaxGroups)

LiveGroups(S) == {g \in Groups : S.wait_handles[g] # <<>>}

Min(a, b) == IF a < b THEN a ELSE b

\* C11: with n distinct handles registered from the empty pool and nothing
\* signaled or unregistered, ceil(n / MAX_WAIT) groups exist, each full but
\* the last one created; a worker that returns from its wait with a user
\* handle is the worker of the group holding that handle.
C11_GroupsFill ==
    /\ kernel[1] = "nonsignaled" =>
          LET n == NumRegistered(State)
          IN /\ Cardinality(LiveGroups(State)) = (n + MAX_WAIT - 1) \div MAX_WAIT
             /\ \A g \in Groups :
                   UserHandles(State, g) =
                       Min(MAX_WAIT, IF n > MAX_WAIT * (g - 1)
                                     THEN n - MAX_WAIT * (g - 1) ELSE 0)
    /\ \A g \in Groups :
          (pc[g] = "woken" /\ signaled_handle[g] \in Handles)
          => /\ signaled_handle[g] \in DOMAIN handle_map
             /\ handle_map[signaled_handle[g]].wait_group = g

\* 2 * MAX_WAIT + 1 handles in three groups, the last one registered signaled:
\* the worker of the third group has returned with it, the others wait.
C11_Witness ==
    /\ NumRegistered(State) = 2 * MAX_WAIT + 1
    /\ Cardinality(LiveGroups(State)) = 3
    /\ \E g \in Groups :
          /\ UserHandles(State, g) = 1
          /\ pc[g] = "woken"
          /\ signaled_handle[g] = 1
          /\ \A f \in Groups \ {g} : pc[f] = "blocked"

\* ---------------------------------------------------------------- C12
\* The user handles of group g that the model tells apart, in list order.
UserList(S, g) == IF S.wait_handles[g] = <<>> THEN <<>> ELSE Tail(S.wait_handles[g])

\* C12: whenever the pool lock is free, every handle of the map is in the
\* list of the group the map records for it, every user handle of a group
\* the pool leads to is in the map, and no user handle is twice in a list
\* or in the lists of two groups.
C12_MapMatchesGroups ==
    lock = 0 =>
        /\ \A h \in DOMAIN handle_map :
              h \in Elems(UserList(State, handle_map[h].wait_group))
        /\ \A g \in Groups :
              Reachable(State, g) =>
                  Elems(UserList(State, g)) \subseteq DOMAIN handle_map
        /\ \A g, f \in Groups :
              \A i \in 1..Len(UserList(State, g)), j \in 1..Len(UserList(State, f)) :
                  UserList(State, g)[i] = UserList(State, f)[j] => (g = f /\ i = j)

\* Two handles of the map in the lists of two groups, one of them full.
C12_Witness ==
    /\ lock = 0
    /\ \E h, k \in DOMAIN handle_map :
          /\ handle_map[h].wait_group # handle_map[k].wait_group
          /\ WaitGroup_len(State, handle_map[h].wait_group) = MAXIMUM_WAIT_OBJECTS
          /\ k \in Elems(UserList(State, handle_map[k].wait_group))

\* ---------------------------------------------------------------- C13
\* How many entries of the index are group g.
IndexCount(S, g) ==
    Cardinality({i \in 1..Len(S.size_sorted) : S.size_sorted[i].group = g})

\* C13: whenever the pool lock is free, a group holding at least one and
\* fewer than MAX_WAIT user handles is in the index exactly once, and a
\* full group is not in it.
C13_IndexExactlyOnce ==
    lock = 0 =>
        \A g \in Groups :
            /\ (1 <= UserHandles(State, g) /\ UserHandles(State, g) < MAX_WAIT)
               => IndexCount(State, g) = 1
            /\ UserHandles(State, g) >= MAX_WAIT => IndexCount(State, g) = 0

\* A full group outside the index next to a group that is in it.
C13_Witness ==
    /\ lock = 0
    /\ \E g, f \in Groups :
          /\ UserHandles(State, g) = MAX_WAIT
          /\ IndexCount(State, g) = 0
          /\ UserHandles(State, f) = 1
          /\ IndexCount(State, f) = 1

\* ---------------------------------------------------------------- C14
\* C14: whenever the pool lock is free, a group holding no user handle is
\* not in the index and no entry of the handle map refers to it.
C14_NoEmptyGroupReachable ==
    lock = 0 =>
        \A g \in Groups :
            UserHandles(State, g) = 0 =>
                /\ g \notin IndexGroups(State)
                /\ \A h \in DOMAIN handle_map : handle_map[h].wait_group # g

\* A group left with its cancel event alone, its worker still running,
\* while the pool holds a handle in another group.
C14_Witness ==
    /\ lock = 0
    /\ \E g \in Groups :
          /\ Len(wait_handles[g]) = 1
          /\ quiet[g] = 0
          /\ pc[g] \in {"loop", "blocked", "woken"}
          /\ \E h \in DOMAIN handle_map : handle_map[h].wait_group # g

\* ---------------------------------------------------------------- C15
\* Where a worker thread that was started and has not yet exited can be.
LivePcs == {"start", "loop", "blocked", "woken", "callbacks", "closing", "raised"}

\* C15: a group holding k > 0 user handles has its one worker thread alive.
\* (The other half, no live worker for k = 0, is not stated here: the worker
\* of a group that has just lost its last handle is alive until it runs.)
C15_OneWorkerPerGroup ==
    \A g \in Groups : UserHandles(State, g) > 0 => pc[g] \in LivePcs

\* ---------------------------------------------------------------- C16
\* C16: no user handle is ever closed, and the first element of every
\* group's list, the one the pool's code closes, is a cancel event.
C16_NeverClosesUserHandle ==
    /\ \A h \in Handles : kernel[h] # "closed"
    /\ \A g \in Groups :
          wait_handles[g] # <<>> =>
              /\ wait_handles[g][1] \in CancelEvents
              /\ \A i \in 2..Len(wait_handles[g]) : wait_handles[g][i] \in Handles

\* A worker thread has ended and closed its cancel event while a signaled
\* user handle is in its group's list.
C16_Witness ==
    \E g \in Groups :
        /\ pc[g] = "exited"
        /\ kernel[wait_handles[g][1]] = "closed"
        /\ \E h \in Elems(UserList(State, g)) : kernel[h] = "signaled"

\* ---------------------------------------------------------------- C17
\* C17: a register for a handle that is in the pool adds the callback to
\* the handle's set and changes nothing else: no list, no group, not the
\* index, no kernel object, no worker.
C17_RegisterKnownHandle ==
    [][\A j \in Jobs :
          (j[1] \in DOMAIN handle_map /\ RegisterWaitForSingleObject_trio(j[1], j[2]))
          => /\ handle_map' = [handle_map EXCEPT
                                  ![j[1]].callbacks = @ \cup {j[2]}]
             /\ UNCHANGED <<size_sorted, wait_handles, quiet, group_limit, kernel,
                            pc, snapshot, signaled_handle, outcome, delivered>>]_vars

\* A handle with two callbacks whose group's worker is blocked on a cancel
\* event nobody has set.
C17_Witness ==
    \E h \in DOMAIN handle_map :
        /\ Cardinality(handle_map[h].callbacks) = 2
        /\ pc[handle_map[h].wait_group] = "blocked"
        /\ kernel[wait_handles[handle_map[h].wait_group][1]] = "nonsignaled"
        /\ snapshot[handle_map[h].wait_group] = wait_handles[handle_map[h].wait_group]

\* ---------------------------------------------------------------- C18
\* C18: WaitForSingleObject called for a handle that is signaled returns
\* without touching the pool: map, groups, index, kernel objects and worker
\* threads are as before and nothing was registered.
C18_AlreadySignaled ==
    [][\A t \in Tasks, h \in Handles :
          (kernel[h] = "signaled" /\ TaskCall(t, h))
          => /\ task_pc'[t] = "done"
             /\ UNCHANGED <<poolvars, workervars, histvars>>]_vars

\* A task has returned from a call for a signaled handle; no group and no
\* worker thread was ever created.
C18_Witness ==
    \E t \in Tasks :
        /\ task_pc[t] = "done"
        /\ kernel[task_obj[t]] = "signaled"
        /\ job_state[<<task_obj[t], wakeup_of(t)>>] = "idle"
        /\ handle_map = <<>>
        /\ \A g \in Groups : pc[g] = "none" /\ wait_handles[g] = <<>>

\* ---------------------------------------------------------------- C19
\* C19: no worker thread calls a callback while it holds the pool lock.
C19_CallbacksWithoutLock ==
    [][\A g \in Groups :
          (pending[g] # {} /\ pending'[g] # pending[g]) => lock # g]_vars

\* ---------------------------------------------------------------- C20
\* No handle is registered, quiet ones included.
PoolEmpty == handle_map = <<>> /\ \A g \in Groups : quiet[g] = 0

\* C20: a handle that is in no group's list has no entry in the map; with
\* the worker threads scheduled fairly the worker of a group left without
\* user handles ends, and an empty pool is left without worker threads
\* unless something is registered again.
C20_WorkerOfEmptyGroupExits ==
    /\ [](\A h \in Handles :
             (\A g \in Groups : h \notin Elems(wait_handles[g]))
             => h \notin DOMAIN handle_map)
    /\ \A g \in Groups :
          (wait_handles[g] # <<>> /\ UserHandles(State, g) = 0)
          ~> (pc[g] \notin LivePcs)
    /\ PoolEmpty ~> (~PoolEmpty \/ \A g \in Groups : pc[g] \notin LivePcs)

\* A task was cancelled before its handle was signaled: its group is left
\* with the cancel event alone, and its worker has yet to take the lock.
C20_Witness ==
    \E g \in Groups, t \in Tasks :
        /\ abort_ret[t] = "SUCCEEDED"
        /\ kernel[task_obj[t]] = "nonsignaled"
        /\ wait_handles[g] # <<>>
        /\ UserHandles(State, g) = 0
        /\ pc[g] = "woken"
        /\ signaled_handle[g] = wait_handles[g][1]
        /\ PoolEmpty

\* ---------------------------------------------------------------- C21
\* C21: a worker whose wait fails with WAIT_FAILED ends with that OSError:
\* it calls nothing more, closes its cancel event, and its thread's end
\* hands the OSError to the run loop.
C21_WaitFailedDelivered ==
    [][\A g \in Groups :
          /\ WorkerWaitFailed(g) => (pc'[g] = "raised" /\ outcome'[g] = "OSError")
          /\ (pc[g] = "raised" /\ outcome[g] = "OSError" /\ pc'[g] # "raised")
             => /\ "OSError" \in delivered'
                /\ pc'[g] \in {"exited", "none"}
                /\ kernel'[wait_handles[g][1]] = "closed"
                /\ UNCHANGED <<job_state, taskvars>>]_vars

\* The OSError of a worker is with the run loop, and the worker's group
\* still holds a registered handle.
C21_Witness ==
    /\ "OSError" \in delivered
    /\ \E g \in Groups :
          /\ pc[g] = "exited"
          /\ outcome[g] = "OSError"
          /\ \E h \in DOMAIN handle_map : handle_map[h].wait_group = g

\* ---------------------------------------------------------------- C22
\* The cancel events that are open, and the groups whose worker thread was
\* started and has not exited.
OpenCancelEvents == {e \in CancelEvents : kernel[e] # "closed"}

LiveWorkers == {g \in Groups : pc[g] \in LivePcs}

\* C22: the open cancel events are exactly the first list elements of the
\* groups with a live worker, one each; a cancel event is closed only by a
\* step of its group's worker, while it is open; and a worker's last step
\* closes the event its group then has.
C22_CancelEventsClosedOnce ==
    /\ [](/\ \A g \in LiveWorkers : wait_handles[g][1] \in OpenCancelEvents
          /\ \A g1, g2 \in LiveWorkers :
                wait_handles[g1][1] = wait_handles[g2][1] => g1 = g2
          /\ Cardinality(OpenCancelEvents) = Cardinality(LiveWorkers))
    /\ [][/\ \A e \in OpenCancelEvents :
                kernel'[e] = "closed" =>
                   \E g \in LiveWorkers :
                      /\ wait_handles[g][1] = e
                      /\ WorkerDrain(g) \/ WorkerClose(g)
          /\ \A g \in LiveWorkers :
                pc'[g] \notin LivePcs =>
                   /\ WorkerClose(g)
                   /\ kernel'[wait_handles[g][1]] = "closed"]_vars

\* A worker has exited and its last cancel event is closed, while another
\* group's worker goes on with its own open event.
C22_Witness ==
    /\ lock = 0
    /\ \E g1, g2 \in Groups :
          /\ pc[g1] = "exited"
          /\ kernel[wait_handles[g1][1]] = "closed"
          /\ pc[g2] = "loop"
          /\ Len(wait_handles[g2]) > 1

\* ---------------------------------------------------------------- C23
\* The groups of the pool that have room for one more handle.
NonFull(S) ==
    {g \in Groups : UserHandles(S, g) > 0
                    /\ WaitGroup_len(S, g) < MAXIMUM_WAIT_OBJECTS}

\* C23: a handle that enters the pool goes to a group with room that holds
\* no fewer user handles than any other group with room, and then no group
\* is allocated; when no group has room it goes to a group allocated for
\* it, whose worker is started.
C23_AddChoosesFullest ==
    [][\A h \in Handles :
          (h \notin DOMAIN handle_map /\ h \in DOMAIN handle_map') =>
             LET g == handle_map'[h].wait_group
             IN /\ h \in Elems(wait_handles'[g])
                /\ IF NonFull(State) = {}
                   THEN /\ wait_handles[g] = <<>>
                        /\ pc[g] = "none"
                        /\ pc'[g] = "start"
                   ELSE /\ g \in NonFull(State)
                        /\ \A f \in NonFull(State) :
                              UserHandles(State, f) <= UserHandles(State, g)
                        /\ \A f \in Groups :
                              wait_handles[f] = <<>> => wait_handles'[f] = <<>>]_vars

\* Two groups with room, and the one handle of the pool is in the group
\* that held two handles when the other held one.
C23_Witness ==
    \E g, f \in Groups :
       /\ DOMAIN handle_map # {}
       /\ \A h \in DOMAIN handle_map : handle_map[h].wait_group = g
       /\ Len(wait_handles[g]) = 2
       /\ quiet[g] = 2
       /\ wait_handles[f] # <<>>
       /\ quiet[f] = 1
       /\ Len(wait_handles[f]) = 1

\* ---------------------------------------------------------------- C24
\* C24: a worker that takes the pool lock after its wait while its group's
\* cancel event is signaled removes no handle from the map or from its
\* list, calls no callback, and goes on (not raising).
C24_InvalidationPath ==
    [][\A g \in Groups :
          (/\ pc[g] = "woken"
           /\ kernel[wait_handles[g][1]] = "signaled"
           /\ pc'[g] # "woken")
          => /\ handle_map' = handle_map
             /\ Tail(wait_handles'[g]) = Tail(wait_handles[g])
             /\ pc'[g] \in {"loop", "closing"}]_vars

Mutation(h, g) ==
    /\ wait_handles[g] # <<>>
    /\ \/ /\ h \notin DOMAIN handle_map
          /\ h \in DOMAIN handle_map'
          /\ handle_map'[h].wait_group = g
       \/ /\ h \in DOMAIN handle_map
          /\ h \notin DOMAIN handle_map'
          /\ handle_map[h].wait_group = g
    /\ \A f \in Groups : pc'[f] = "callbacks" => pc[f] = "callbacks"

C27_NoLostWake ==
    \A g \in Groups :
       pc[g] = "blocked" =>
          /\ snapshot[g] # wait_handles[g] => kernel[snapshot[g][1]] = "signaled"
          /\ (\A x \in Elems(snapshot[g]) : kernel[x] # "signaled")
             => snapshot[g] = wait_handles[g]

\* A worker that was woken for the second handle put in its group blocks
\* again, on the cancel event and both handles.
C27_Witness ==
    \E g \in Groups :
       /\ pc[g] = "blocked"
       /\ Len(snapshot[g]) = 3
       /\ \A h \in Handles : h \in DOMAIN handle_map /\ h \in Elems(snapshot[g])

\* ---------------------------------------------------------------- C28
\* C28: when the UnregisterWait of abort has returned False the latch of
\* the task is set, and what abort then returns is Abort.FAILED.
C28_FalseMeansLatched ==
    \A t \in Tasks :
       (task_pc[t] = "aborting" /\ retcode[t] = "False") =>
          /\ reschedule_in_flight[t]
          /\ abort(retcode[t], reschedule_in_flight[t]) = "FAILED"

\* abort is between its UnregisterWait, which returned False, and its test
\* of the latch; the reschedule the wakeup asked for is queued.
C28_Witness ==
    \E t \in Tasks :
       /\ task_pc[t] = "aborting"
       /\ retcode[t] = "False"
       /\ t \in entry_queue
       /\ task_obj[t] \notin DOMAIN handle_map

\* ---------------------------------------------------------------- C29
\* C29: a task whose abort returned Abort.FAILED is resumed in the end,
\* unless the run has been ended by the exception of a worker thread.
C29_FailedAbortResumes ==
    \A t \in Tasks :
       (abort_ret[t] = "FAILED")
          ~> (task_pc[t] \in {"resumed", "done"} \/ ~RunLoopAlive)

\* The abort of a task returned Abort.FAILED and the task has run again, to
\* the end of WaitForSingleObject_pool.
C29_Witness ==
    \E t \in Tasks :
       /\ abort_ret[t] = "FAILED"
       /\ task_pc[t] = "done"
       /\ RunLoopAlive

\* ---------------------------------------------------------------- C30
\* C30: the UnregisterWait a task makes once its wakeup has resumed it
\* returns False and leaves map, groups, index, kernel objects and workers
\* as they are, the registration another task has made for the same handle
\* included.
C30_UnregisterAfterResume ==
    [][\A t \in Tasks :
          (task_pc[t] = "resumed" /\ task_pc'[t] = "done") =>
             /\ UnregisterWait_trio(task_obj[t], wakeup_of(t), "False")
             /\ RemoveLeavesPool]_vars

\* A task resumed by its wakeup has made its UnregisterWait; another task,
\* which registered the same handle after that wakeup, is suspended, its
\* wakeup in the pool.
C30_Witness ==
    \E t, u \in Tasks :
       /\ t # u
       /\ task_pc[t] = "done"
       /\ job_state[<<task_obj[t], wakeup_of(t)>>] = "released"
       /\ task_pc[u] = "suspended"
       /\ task_obj[u] = task_obj[t]
       /\ task_obj[u] \in DOMAIN handle_map
       /\ handle_map[task_obj[u]].callbacks = {wakeup_of(u)}

\* ---------------------------------------------------------------- C31
\* C31: UnregisterWait for a callback of a handle that has other callbacks
\* too returns True and takes that callback out of the handle's set; the
\* handle's group, the lists, the index, the kernel objects and the workers
\* stay as they are.
C31_UnregisterOneOfSeveral ==
    [][\A j \in Jobs :
          (/\ j[1] \in DOMAIN handle_map
           /\ j[2] \in handle_map[j[1]].callbacks
           /\ handle_map[j[1]].callbacks # {j[2]}
           /\ \E rv \in ReturnValues : UnregisterWait_trio(j[1], j[2], rv))
          => /\ UnregisterWait_trio(j[1], j[2], "True")
             /\ handle_map' = [handle_map EXCEPT ![j[1]].callbacks = @ \ {j[2]}]
             /\ UNCHANGED <<size_sorted, wait_handles, quiet, group_limit, kernel,
                            pc, snapshot, signaled_handle, outcome, delivered>>]_vars

\* One callback of a handle was unregistered and the other one is still
\* registered; the worker of the handle's group is blocked on the handle.
C31_Witness ==
    \E j, k \in Jobs :
       /\ j[1] = k[1]
       /\ job_state[j] = "cancelled"
       /\ job_state[k] = "registered"
       /\ j[1] \in DOMAIN handle_map
       /\ handle_map[j[1]].callbacks = {k[2]}
       /\ pc[handle_map[j[1]].wait_group] = "blocked"
       /\ j[1] \in Elems(snapshot[handle_map[j[1]].wait_group])

\* ---------------------------------------------------------------- C32
\* C32: no worker raises in drain_one: no worker thread ends with an
\* exception, and none is handed to the run loop.
C32_WorkerNeverFails ==
    /\ \A g \in Groups : pc[g] # "raised" /\ outcome[g] = "none"
    /\ delivered = {}

\* ---------------------------------------------------------------- C33
\* Where a worker thread that will go on waiting for its group can be.
ServingPcs == {"start", "loop", "blocked", "woken", "callbacks"}

\* A call of the API changes the handles of group g, which existed before
\* the call (a worker that leaves "woken" has run drain_one itself).
CoordinatorTouches(g) ==
    /\ wait_handles[g] # <<>>
    /\ wait_handles'[g] # <<>>
    /\ Tail(wait_handles'[g]) # Tail(wait_handles[g]) \/ quiet'[g] # quiet[g]
    /\ ~(pc[g] = "woken" /\ pc'[g] # "woken")

\* C33: the call that allocates a group leaves the lock with a handle in
\* it, so that the group's worker, which begins by taking the lock, finds
\* one; and the API changes the handles of (and so wakes) only groups whose
\* worker has neither exited nor raised nor found its group empty.
C33_NoGroupWithoutWorker ==
    [][\A g \in Groups :
          /\ (pc[g] = "none" /\ pc'[g] = "start")
             => Len(wait_handles'[g]) + quiet'[g] > 1
          /\ CoordinatorTouches(g) => pc[g] \in ServingPcs]_vars

\* ---------------------------------------------------------------- C34
\* C34: the key each entry of the index was inserted with is the length its
\* group's list has now, cancel event included, and lies between 2 and
\* MAXIMUM_WAIT_OBJECTS - 1; the entries are in the order of their keys.
C34_KeysAreLengths ==
    /\ \A i \in 1..Len(size_sorted) :
          /\ size_sorted[i].key = WaitGroup_len(State, size_sorted[i].group)
          /\ 2 <= size_sorted[i].key
          /\ size_sorted[i].key <= MAXIMUM_WAIT_OBJECTS - 1
    /\ \A i, k \in 1..Len(size_sorted) :
          i < k => size_sorted[i].key <= size_sorted[k].key

\* Two groups in the index, the one that got both handles of the pool, one
\* after the other, behind the other one.
C34_Witness ==
    /\ Len(size_sorted) = 2
    /\ size_sorted[1].key < size_sorted[2].key
    /\ \A h \in Handles :
          /\ h \in DOMAIN handle_map
          /\ handle_map[h].wait_group = size_sorted[2].group
          /\ h \in Elems(wait_handles[size_sorted[2].group])

=============================================================================
